---------------------------- MODULE Spec2Model ----------------------------
(***************************************************************************)
(* PIKNDEL integration: the provider client with its process-wide token    *)
(* cache (src/services/pikndelService.js) and the webhook receiver         *)
(* (src/routes/orderRoutes.js, src/models/WebhookResponse.js).             *)
(*                                                                         *)
(* JavaScript values are records with a type tag t: primitives are         *)
(* [t, s, n]; objects are [t |-> "object", <own properties>]; arrays are    *)
(* [t |-> "array", items |-> <sequence>].                                   *)
(***************************************************************************)
EXTENDS Integers, Sequences, FiniteSets, TLC

\* ------------------------------------------------------------------ bounds
MaxCalls == 2      \* outbound service calls that may be in flight at once
MaxHooks == 2      \* webhook requests that may be awaiting their insert at once
MaxRecords == 2    \* webhook inserts followed (the collection itself is unbounded)

\* ------------------------------------------------------- JavaScript values
Undef == [t |-> "undefined", s |-> "", n |-> 0]
Null == [t |-> "null", s |-> "", n |-> 0]
NaN == [t |-> "number", s |-> "NaN", n |-> 0]
Str(x) == [t |-> "string", s |-> x, n |-> 0]
Num(k) == [t |-> "number", s |-> "", n |-> k]
Bool(b) == [t |-> "boolean", s |-> "", n |-> IF b THEN 1 ELSE 0]
Arr(q) == [t |-> "array", items |-> q]

\* ToBoolean: undefined, null, "", 0, NaN and false are falsy
Truthy(v) ==
    CASE v.t \in {"undefined", "null"} -> FALSE
      [] v.t = "string" -> v.s # ""
      [] v.t = "number" -> v.s # "NaN" /\ v.n # 0
      [] v.t = "boolean" -> v.n = 1
      [] OTHER -> TRUE

Nullish(v) == v.t \in {"undefined", "null"}

\* a || b
Or(a, b) == IF Truthy(a) THEN a ELSE b

\* a ?? b
Coalesce(a, b) == IF Nullish(a) THEN b ELSE a

\* Array.isArray(v)
IsArray(v) == v.t = "array"

\* o.f : a missing property (and any property of a primitive) reads undefined.
\* The callers guard the nullish receivers, on which JavaScript throws.
Get(o, f) == IF o.t = "object" /\ f \in DOMAIN o THEN o[f] ELSE Undef

\* a[0] of an array: undefined when the array is empty
First(a) == IF Len(a.items) = 0 THEN Undef ELSE a.items[1]

Digits == <<"0", "1", "2", "3", "4", "5", "6", "7", "8", "9">>

\* the decimal numeral of a natural number
RECURSIVE Dec(_)
Dec(k) == IF k < 10 THEN Digits[k + 1] ELSE Dec(k \div 10) \o Digits[(k % 10) + 1]

\* String(v) and the template-literal conversion `${v}`
String(v) ==
    CASE v.t = "string" -> v
      [] v.t = "number" -> IF v.s = "NaN" THEN Str("NaN") ELSE Str(Dec(v.n))
      [] v.t = "boolean" -> IF v.n = 1 THEN Str("true") ELSE Str("false")
      [] v.t = "undefined" -> Str("undefined")
      [] v.t = "null" -> Str("null")
      [] v.t = "array" -> Str("")
      [] OTHER -> Str("[object Object]")

\* The numbers whose numerals occur among the strings of the model; every other
\* string of the model starts with a character no number starts with.
Numerals == {0, 1, 5, 10, 50, 1700}

\* parseFloat(v): the number a numeral denotes, NaN for anything else
ParseFloat(v) ==
    LET str == String(v).s
    IN IF \E k \in Numerals : Dec(k) = str
       THEN Num(CHOOSE k \in Numerals : Dec(k) = str)
       ELSE NaN

\* ----------------------------------------------------------- configuration
\* process.env as the handlers read it
Envs ==
    [USERNAME : {Undef, Str("envuser")}, PASSWORD : {Undef, Str("envpass")},
     SOURCE : {Undef}, WEBHOOK_SECRET : {Undef, Str("s3cret")}]

\* ------------------------------------------------------------------- state
VARIABLES
    env,          \* process.env: credentials, source id, webhook secret
    cachedToken,  \* the token cache of the service module
    calls,        \* per call slot: the service call awaiting its HTTP response
    hooks,        \* per slot: the webhook request awaiting WebhookResponse.create
    records,      \* the documents of the webhook collection, in insertion order
    unauth,       \* history: the last 401 and whether the cache was written since
    completedLogins, \* history: tokens of the last two successful logins, oldest first
    ev            \* history: what the last step did (what was sent or returned)

vars == <<env, cachedToken, calls, hooks, records, unauth, completedLogins, ev>>

CallIds == 1..MaxCalls
HookIds == 1..MaxHooks

Idle == [op |-> "idle", sends |-> 0]
NoHook == [st |-> "idle", payload |-> Undef]

\* ---------------------------------------------------------- provider client
\* the tenths of a version number as String(version) prints it: 1.3, 3.2, 1
VersionString(tenths) ==
    IF tenths % 10 = 0 THEN Dec(tenths \div 10)
    ELSE Dec(tenths \div 10) \o "." \o Dec(tenths % 10)

\* The Control envelope. RequestId (a fresh uuid) and RequestTime (the clock)
\* are new values per call and are not kept in the model.
buildControl(source, tenths) ==
    [t |-> "object",
     Source |-> IF Truthy(source) THEN ParseFloat(source) ELSE Num(3),
     Version |-> Str(VersionString(tenths))]

\* request() attaching the header whether or not the call asked for auth
AuthHeaderIgnoresAuth(auth, token) ==
    IF Truthy(token) THEN Str("Bearer " \o String(token).s) ELSE Undef

\* the Authorization header request() attaches; Undef: no such header
AuthHeader(auth, token) ==
    IF auth /\ Truthy(token) THEN Str("Bearer " \o String(token).s) ELSE Undef

\* the body request() sends
RequestBody(wrapInData, control, data) ==
    IF wrapInData THEN [t |-> "object", Control |-> control, Data |-> data]
    ELSE data @@ [t |-> "object", Control |-> control]

\* what the transport delivers: no response at all, or a status with a body
NetFail == [t |-> "none", status |-> 0, data |-> Undef]
Response(status, data) == [t |-> "response", status |-> status, data |-> data]

\* a call's result: kind "ok" is a return, every other kind a thrown error
\* (statusCode 0: the error carries no statusCode)
Result(kind, code, data) ==
    [kind |-> kind, statusCode |-> code, data |-> data, field |-> ""]
Invalid(kind, field) ==
    [kind |-> kind, statusCode |-> 0, data |-> Undef, field |-> field]

\* handlePikndelResponse without the cache reset of its 401 case
handlePikndelResponseKeepsToken(response) ==
    CASE response.status = 200 ->
           [thrown |-> FALSE, clear |-> FALSE,
            val |-> Result("ok", 200, response.data)]
      [] response.status = 400 ->
           [thrown |-> TRUE, clear |-> FALSE,
            val |-> Result("BadRequest", 400, response.data)]
      [] response.status = 401 ->
           [thrown |-> TRUE, clear |-> FALSE,
            val |-> Result("Unauthorized", 401, response.data)]
      [] response.status = 500 ->
           [thrown |-> TRUE, clear |-> FALSE,
            val |-> Result("ProviderServerError", 500, response.data)]
      [] OTHER ->
           [thrown |-> TRUE, clear |-> FALSE,
            val |-> Result("UnexpectedStatus", response.status, response.data)]

\* handlePikndelResponse resetting the cache on a 500 as it does on a 401
handlePikndelResponseClearsOn500(response) ==
    CASE response.status = 200 ->
           [thrown |-> FALSE, clear |-> FALSE,
            val |-> Result("ok", 200, response.data)]
      [] response.status = 400 ->
           [thrown |-> TRUE, clear |-> FALSE,
            val |-> Result("BadRequest", 400, response.data)]
      [] response.status = 401 ->
           [thrown |-> TRUE, clear |-> TRUE,
            val |-> Result("Unauthorized", 401, response.data)]
      [] response.status = 500 ->
           [thrown |-> TRUE, clear |-> TRUE,
            val |-> Result("ProviderServerError", 500, response.data)]
      [] OTHER ->
           [thrown |-> TRUE, clear |-> FALSE,
            val |-> Result("UnexpectedStatus", response.status, response.data)]

\* handlePikndelResponse: thrown or returned value, and whether it cleared
\* the token cache
handlePikndelResponse(response) ==
    CASE response.status = 200 ->
           [thrown |-> FALSE, clear |-> FALSE,
            val |-> Result("ok", 200, response.data)]
      [] response.status = 400 ->
           [thrown |-> TRUE, clear |-> FALSE,
            val |-> Result("BadRequest", 400, response.data)]
      [] response.status = 401 ->
           [thrown |-> TRUE, clear |-> TRUE,
            val |-> Result("Unauthorized", 401, response.data)]
      [] response.status = 500 ->
           [thrown |-> TRUE, clear |-> FALSE,
            val |-> Result("ProviderServerError", 500, response.data)]
      [] OTHER ->
           [thrown |-> TRUE, clear |-> FALSE,
            val |-> Result("UnexpectedStatus", response.status, response.data)]

\* axios: the promise resolves on a 2xx status (the default validateStatus),
\* rejects with err.response on any other status, and rejects without
\* err.response when no response arrived
AxiosResolves(tr) == tr.t = "response" /\ tr.status >= 200 /\ tr.status < 300

\* the try/catch of request() around the axios call: an error thrown by
\* handlePikndelResponse inside the try block is caught by the same catch,
\* has no .response, and is rethrown as the network error
requestSettle(tr) ==
    IF AxiosResolves(tr)
    THEN LET h == handlePikndelResponse(tr)
         IN IF h.thrown
            THEN [h EXCEPT !.val = Result("NetworkError", 0, Undef)]
            ELSE h
    ELSE IF tr.t = "response"
         THEN handlePikndelResponse(tr)
         ELSE [thrown |-> TRUE, clear |-> FALSE,
               val |-> Result("NetworkError", 0, Undef)]

\* ---------------------------------------------------------- history updates
\* unauth: the operation `by` whose call last received a 401, whether a token
\* was cached then (stale), and whether since then a login succeeded (sinceLogin = FALSE), the
\* cache was written by login or setToken (sinceWrite = FALSE), a call was sent
Note401(by, before) ==
    [by |-> by, stale |-> Truthy(before), sinceLogin |-> TRUE, sinceWrite |-> TRUE,
     sent |-> FALSE]
NoteLogin == [unauth EXCEPT !.sinceLogin = FALSE, !.sinceWrite = FALSE]
NoteSetToken == [unauth EXCEPT !.sinceWrite = FALSE]
NoteSend == [unauth EXCEPT !.sent = TRUE]
\* completedLogins: a login returned `token`
NoteCompleted(token) ==
    IF Len(completedLogins) < 2 THEN Append(completedLogins, token)
    ELSE <<completedLogins[2], token>>

\* ev: an outbound call as sent (arg: the operation's argument), or an
\* operation's result (arg: its argument when it failed before sending)
Sent(op, arg, hdr, body) ==
    [kind |-> "send", op |-> op, arg |-> arg, hdr |-> hdr, body |-> body]
Returned(op, arg, sends, tr, out) ==
    [kind |-> "result", op |-> op, arg |-> arg, sends |-> sends, resp |-> tr,
     out |-> out]

\* ------------------------------------------------------------------- login
\* the token lookup with the top-level Token tried before Data.Token
ExtractTokenTopLevelFirst(response) ==
    Or(Or(Or(Get(response, "Token"), Get(Get(response, "Data"), "Token")),
          Get(response, "token")),
       Get(response, "access_token"))

\* the token lookup of login(): the first truthy candidate of the || chain
ExtractToken(response) ==
    Or(Or(Or(Get(Get(response, "Data"), "Token"), Get(response, "Token")),
          Get(response, "token")),
       Get(response, "access_token"))

\* login(username, password) up to the await: credentials, then the request
Login(c, username, password) ==
    LET Username == Or(username, env.USERNAME)
        Password == Or(password, env.PASSWORD)
        data == [t |-> "object", Username |-> Username, Password |-> Password,
                 GrantType |-> Str("password")]
    IN /\ calls[c] = Idle
       /\ IF ~Truthy(Username) \/ ~Truthy(Password)
          THEN /\ ev' = Returned("login", data, 0, NetFail,
                                 Invalid("MissingCredentials", ""))
               /\ UNCHANGED <<calls, unauth>>
          ELSE /\ ev' = Sent("login", data, AuthHeader(FALSE, cachedToken),
                             RequestBody(TRUE, buildControl(env.SOURCE, 13), data))
               /\ calls' = [calls EXCEPT ![c] = [op |-> "login", sends |-> 1]]
               /\ unauth' = NoteSend
       /\ UNCHANGED <<env, completedLogins, cachedToken, hooks, records>>

\* login() writing the cache only when it is empty
LoginReturnKeepsFirst(c, tr) ==
    LET h == requestSettle(tr)
        token == ExtractToken(h.val.data)
        value == [t |-> "object", token |-> token,
                  userId |-> Or(Or(Get(Get(h.val.data, "Data"), "UserId"),
                                   Get(h.val.data, "UserId")), Null),
                  name |-> Or(Get(Get(h.val.data, "Data"), "Name"), Null)]
    IN /\ calls[c].op = "login"
       /\ calls' = [calls EXCEPT ![c] = Idle]
       /\ IF h.thrown
          THEN /\ cachedToken' = IF h.clear THEN Null ELSE cachedToken
               /\ unauth' = IF h.clear THEN Note401("login", cachedToken) ELSE unauth
               /\ ev' = Returned("login", Undef, calls[c].sends, tr, h.val)
               /\ UNCHANGED completedLogins
          ELSE IF ~Truthy(token)
               THEN /\ ev' = Returned("login", Undef, calls[c].sends, tr,
                                      Invalid("TokenMissing", ""))
                    /\ UNCHANGED <<cachedToken, unauth, completedLogins>>
               ELSE /\ cachedToken' = IF Truthy(cachedToken) THEN cachedToken ELSE token
                    /\ unauth' = NoteLogin
                    /\ completedLogins' = NoteCompleted(token)
                    /\ ev' = Returned("login", Undef, calls[c].sends, tr,
                                      Result("ok", 200, value))
       /\ UNCHANGED <<env, hooks, records>>

\* login() from the response on: request()'s handling, the token lookup, the
\* cache write and the returned {token, userId, name}. The continuations of
\* the two awaits run in one drain of the microtask queue, before the event
\* loop delivers another response or request, so this is one step.
LoginReturn(c, tr) ==
    LET h == requestSettle(tr)
        token == ExtractToken(h.val.data)
        value == [t |-> "object", token |-> token,
                  userId |-> Or(Or(Get(Get(h.val.data, "Data"), "UserId"),
                                   Get(h.val.data, "UserId")), Null),
                  name |-> Or(Get(Get(h.val.data, "Data"), "Name"), Null)]
    IN /\ calls[c].op = "login"
       /\ calls' = [calls EXCEPT ![c] = Idle]
       /\ IF h.thrown
          THEN /\ cachedToken' = IF h.clear THEN Null ELSE cachedToken
               /\ unauth' = IF h.clear THEN Note401("login", cachedToken) ELSE unauth
               /\ ev' = Returned("login", Undef, calls[c].sends, tr, h.val)
               /\ UNCHANGED completedLogins
          ELSE IF ~Truthy(token)
               THEN /\ ev' = Returned("login", Undef, calls[c].sends, tr,
                                      Invalid("TokenMissing", ""))
                    /\ UNCHANGED <<cachedToken, unauth, completedLogins>>
               ELSE /\ cachedToken' = token
                    /\ unauth' = NoteLogin
                    /\ completedLogins' = NoteCompleted(token)
                    /\ ev' = Returned("login", Undef, calls[c].sends, tr,
                                      Result("ok", 200, value))
       /\ UNCHANGED <<env, hooks, records>>

\* -------------------------------------------------------------- placeOrder
\* od.Info[0] when Info is an array, od.Info otherwise
InfoEntry(od) ==
    IF IsArray(Get(od, "Info")) THEN First(Get(od, "Info")) ELSE Get(od, "Info")

\* The validation of placeOrder, in its order: the field of the first failed
\* check, "" when all pass, "TypeError" where the code reads a property of
\* null or undefined (OrderDetails[0] itself) before any check can fail.
ValidateOrder(p) ==
    LET OrderDetails == Get(p, "OrderDetails")
        od == First(OrderDetails)
        infoEntry == InfoEntry(od)
    IN IF ~Truthy(Get(p, "UserId")) THEN "UserId"
       ELSE IF ~IsArray(OrderDetails) \/ Len(OrderDetails.items) = 0
            THEN "OrderDetails"
       ELSE IF Nullish(od) THEN "TypeError"
       ELSE IF ~Truthy(Get(od, "ClientUniqueNo")) THEN "ClientUniqueNo"
       ELSE IF ~Truthy(Get(od, "TotalActualWeight")) THEN "TotalActualWeight"
       ELSE IF ~Truthy(infoEntry) THEN "Info"
       ELSE IF ~Truthy(Get(infoEntry, "Pickup")) THEN "Pickup"
       ELSE IF ~Truthy(Get(infoEntry, "Delivery")) THEN "Delivery"
       ELSE IF \/ ~IsArray(Get(infoEntry, "Item"))
               \/ Len(Get(infoEntry, "Item").items) = 0
            THEN "Item"
       ELSE ""

\* the Pickup object of the submitted body
BuildPickup(pk) ==
    [t |-> "object",
     UniqueNo |-> Or(Get(pk, "Mobile"), Str("")),
     PersonName |-> Get(pk, "PersonName"),
     Mobile |-> Get(pk, "Mobile"),
     AddressType |-> Or(Get(pk, "AddressType"), Str("Home")),
     HouseNo |-> Or(Get(pk, "HouseNo"), Str("")),
     Landmark |-> Or(Get(pk, "Landmark"), Str("")),
     Address |-> Get(pk, "Address"),
     Lat |-> Or(Get(pk, "Lat"), Str("")),
     Lng |-> Or(Get(pk, "Lng"), Str("")),
     Pincode |-> Get(pk, "Pincode"),
     CashPaid |-> Or(Get(pk, "CashPaid"), Str("0")),
     CashCollection |-> Or(Get(pk, "CashCollection"), Str("0")),
     Comment |-> Or(Get(pk, "Comment"), Str("")),
     PickupDate |-> Or(Get(pk, "PickupDate"), Str("")),
     PickupSlot |-> Or(Get(pk, "PickupSlot"), Str("")),
     RTOName |-> Or(Get(pk, "RTOName"), Get(pk, "PersonName")),
     RTOMobile |-> Or(Get(pk, "RTOMobile"), Get(pk, "Mobile")),
     RTOAddr |-> Or(Get(pk, "RTOAddr"), Get(pk, "Address")),
     RTOPincode |-> Or(Get(pk, "RTOPincode"), Get(pk, "Pincode"))]

\* one element of the Item list of the submitted body
BuildItem(item) ==
    [t |-> "object",
     Qty |-> Get(item, "Qty"),
     Type |-> Or(Get(item, "Type"), Str("Goods")),
     IsFragile |-> String(Coalesce(Get(item, "IsFragile"), Str("0"))),
     IsLiquid |-> String(Coalesce(Get(item, "IsLiquid"), Str("0"))),
     Name |-> Or(Get(item, "Name"), Null),
     Cost |-> Get(item, "Cost"),
     Length |-> Or(Get(item, "Length"), Num(0)),
     Width |-> Or(Get(item, "Width"), Num(0)),
     Height |-> Or(Get(item, "Height"), Num(0)),
     ActualWeight |-> Or(Get(item, "ActualWeight"), Num(1)),
     EWayBillNo |-> Or(Or(Get(item, "EWayBillNo"), Get(item, "EwayBillNo")),
                       Str(""))]

\* the Delivery object of the submitted body
BuildDelivery(dl) ==
    [t |-> "object",
     UniqueNo |-> Or(Get(dl, "Mobile"), Str("")),
     PersonName |-> Get(dl, "PersonName"),
     Mobile |-> Get(dl, "Mobile"),
     AddressType |-> Or(Get(dl, "AddressType"), Str("Home")),
     HouseNo |-> Or(Get(dl, "HouseNo"), Str("")),
     Landmark |-> Or(Get(dl, "Landmark"), Str("")),
     Address |-> Get(dl, "Address"),
     Lat |-> Or(Get(dl, "Lat"), Str("")),
     Lng |-> Or(Get(dl, "Lng"), Str("")),
     Pincode |-> Get(dl, "Pincode"),
     CashCollection |-> Or(ParseFloat(Get(dl, "CashCollection")), Num(0)),
     Comment |-> Or(Get(dl, "Comment"), Str(""))]

\* The mapping of OrderDetails.map throws a TypeError on a detail block the
\* validation did not look at (only OrderDetails[0] is validated): a nullish
\* block, info entry, Pickup, Delivery or item, or an Item that has no map().
DetailThrows(od) ==
    \/ Nullish(od)
    \/ LET inf == InfoEntry(od)
       IN \/ Nullish(inf)
          \/ Nullish(Get(inf, "Pickup"))
          \/ Nullish(Get(inf, "Delivery"))
          \/ ~IsArray(Get(inf, "Item"))
          \/ \E i \in 1..Len(Get(inf, "Item").items) :
                Nullish(Get(inf, "Item").items[i])

\* one element of OrderDetails of the submitted body
BuildDetail(od) ==
    LET inf == InfoEntry(od)
        items == Get(inf, "Item").items
    IN [t |-> "object",
        PreAWBNo |-> Or(Get(od, "PreAWBNo"), Str("")),
        ClientUniqueNo |-> Get(od, "ClientUniqueNo"),
        VehicleType |-> Or(Get(od, "VehicleType"), Str("Bike")),
        BrandName |-> Or(Get(od, "BrandName"), Str("")),
        OrderType |-> Or(Get(od, "OrderType"), Str("B2C")),
        InvoiceNo |-> Or(Get(od, "InvoiceNo"), Str("")),
        InvoiceUrl |-> Or(Get(od, "InvoiceUrl"), Str("")),
        InvoiceValue |-> Or(Get(od, "InvoiceValue"), Str("0.00")),
        EWAYBillNo |-> Or(Get(od, "EWAYBillNo"), Str("")),
        TotalActualWeight |-> String(Get(od, "TotalActualWeight")),
        Info |-> Arr(<<[t |-> "object",
                        Pickup |-> BuildPickup(Get(inf, "Pickup")),
                        Item |-> Arr([i \in 1..Len(items) |-> BuildItem(items[i])]),
                        Delivery |-> BuildDelivery(Get(inf, "Delivery"))]>>)]

\* the body placeOrder submits for a payload that passed the validation and
\* whose mapping does not throw
BuildOrderBody(p) ==
    LET ods == Get(p, "OrderDetails").items
    IN [t |-> "object",
        UserId |-> String(Get(p, "UserId")),
        OrderDetails |-> Arr([i \in 1..Len(ods) |-> BuildDetail(ods[i])])]

\* placeOrder(orderPayload) up to the await: validation, mapping, the request
PlaceOrder(c, p) ==
    LET failed == ValidateOrder(p)
        ods == Get(p, "OrderDetails").items
    IN /\ calls[c] = Idle
       /\ IF failed = "TypeError"
          THEN /\ ev' = Returned("placeOrder", p, 0, NetFail,
                                 Invalid("TypeError", ""))
               /\ UNCHANGED <<calls, unauth>>
          ELSE IF failed # ""
          THEN /\ ev' = Returned("placeOrder", p, 0, NetFail,
                                 Invalid("ValidationError", failed))
               /\ UNCHANGED <<calls, unauth>>
          ELSE IF \E i \in 1..Len(ods) : DetailThrows(ods[i])
          THEN /\ ev' = Returned("placeOrder", p, 0, NetFail,
                                 Invalid("TypeError", ""))
               /\ UNCHANGED <<calls, unauth>>
          ELSE /\ ev' = Sent("placeOrder", p, AuthHeader(TRUE, cachedToken),
                             RequestBody(TRUE, buildControl(env.SOURCE, 32),
                                         BuildOrderBody(p)))
               /\ calls' = [calls EXCEPT ![c] = [op |-> "placeOrder", sends |-> 1]]
               /\ unauth' = NoteSend
       /\ UNCHANGED <<env, completedLogins, cachedToken, hooks, records>>


\* getOrderStatus without its AWBNo check
GetOrderStatusUnchecked(c, AWBNo) ==
    /\ calls[c] = Idle
    /\ ev' = Sent("getOrderStatus", AWBNo, AuthHeader(TRUE, cachedToken),
                  RequestBody(TRUE, buildControl(env.SOURCE, 10),
                              [t |-> "object", AWBNo |-> AWBNo]))
    /\ calls' = [calls EXCEPT ![c] = [op |-> "getOrderStatus", sends |-> 1]]
    /\ unauth' = NoteSend
    /\ UNCHANGED <<env, completedLogins, cachedToken, hooks, records>>

\* ---------------------------------------------------------- getOrderStatus
GetOrderStatus(c, AWBNo) ==
    /\ calls[c] = Idle
    /\ IF ~Truthy(AWBNo)
       THEN /\ ev' = Returned("getOrderStatus", AWBNo, 0, NetFail,
                              Invalid("ValidationError", "AWBNo"))
            /\ UNCHANGED <<calls, unauth>>
       ELSE /\ ev' = Sent("getOrderStatus", AWBNo, AuthHeader(TRUE, cachedToken),
                          RequestBody(TRUE, buildControl(env.SOURCE, 10),
                                      [t |-> "object", AWBNo |-> AWBNo]))
            /\ calls' = [calls EXCEPT ![c] = [op |-> "getOrderStatus", sends |-> 1]]
            /\ unauth' = NoteSend
    /\ UNCHANGED <<env, completedLogins, cachedToken, hooks, records>>

\* placeOrder() and getOrderStatus() from the response on: they return what
\* request() returns or throws
RequestReturn(c, tr) ==
    LET h == requestSettle(tr)
    IN /\ calls[c].op \in {"placeOrder", "getOrderStatus"}
       /\ calls' = [calls EXCEPT ![c] = Idle]
       /\ cachedToken' = IF h.clear THEN Null ELSE cachedToken
       /\ unauth' = IF h.clear THEN Note401(calls[c].op, cachedToken) ELSE unauth
       /\ ev' = Returned(calls[c].op, Undef, calls[c].sends, tr, h.val)
       /\ UNCHANGED <<env, completedLogins, hooks, records>>

\* setToken(t) of the module's exports
SetToken(tok) ==
    /\ cachedToken' = tok
    /\ unauth' = NoteSetToken
    /\ ev' = [kind |-> "setToken"]
    /\ UNCHANGED <<env, completedLogins, calls, hooks, records>>

\* ------------------------------------------------------- webhook receiver
\* verifyWebhookSecret checking only that the header is present
verifyWebhookSecretPresenceOnly(expectedSecret, incomingSecret) ==
    IF ~Truthy(expectedSecret) THEN "next"
    ELSE IF ~Truthy(incomingSecret) THEN "missing"
    ELSE "next"

\* verifyWebhookSecret: "next" lets the request through, the others answer 401
verifyWebhookSecret(expectedSecret, incomingSecret) ==
    IF ~Truthy(expectedSecret) THEN "next"
    ELSE IF ~Truthy(incomingSecret) THEN "missing"
    ELSE IF incomingSecret # expectedSecret THEN "invalid"
    ELSE "next"

\* the schema's cast of a String path; "CastError" when it has none
CastString(v) ==
    CASE v.t \in {"undefined", "null", "string"} -> v
      [] v.t \in {"number", "boolean"} -> String(v)
      [] OTHER -> Str("CastError")

\* the schema's cast of the Number path
CastNumber(v) ==
    CASE v.t \in {"undefined", "null", "number"} -> v
      [] v.t = "boolean" -> Num(v.n)
      [] v.t = "string" ->
           IF v.s = "" THEN Null
           ELSE IF ParseFloat(v) = NaN THEN Str("CastError") ELSE ParseFloat(v)
      [] OTHER -> Str("CastError")

\* Whether WebhookResponse.create rejects the document for a failed cast
CastFails(payload) ==
    \/ \E f \in {"AWBNo", "short_code", "activity"} :
          Get(payload, f).t \in {"object", "array"}
    \/ CastNumber(Get(payload, "timestamp")) = Str("CastError")

\* The document WebhookResponse.create stores for a payload (createdAt and
\* updatedAt, which the store assigns from its clock, are not kept)
WebhookDoc(payload) ==
    [AWBNo |-> CastString(Get(payload, "AWBNo")),
     short_code |-> CastString(Get(payload, "short_code")),
     activity |-> CastString(Get(payload, "activity")),
     timestamp |-> CastNumber(Get(payload, "timestamp")),
     rawPayload |-> payload]

\* an upsert keyed on AWBNo in place of the insert
UpsertDoc(coll, doc) ==
    IF \E i \in 1..Len(coll) : coll[i].AWBNo = doc.AWBNo
    THEN [i \in 1..Len(coll) |-> IF coll[i].AWBNo = doc.AWBNo THEN doc ELSE coll[i]]
    ELSE Append(coll, doc)

\* the collection after a successful create
InsertDoc(coll, doc) == Append(coll, doc)

\* the handler without its inner try/catch: a failed create reaches the outer one
InnerCatchMissing(dbErr) == dbErr

\* Whether a failure of create leaves the inner try/catch of the handler
\* (and so reaches the outer catch, which answers 500)
InnerCatchRethrows(dbErr) == FALSE

\* `${v}` and STATUS_MAP[v] convert v to a string, which throws a TypeError
\* for an object whose own toString is not a function (JSON can carry one:
\* {"toString": 1}); the inherited valueOf returns the object itself
ToPrimitiveThrows(v) == v.t = "object" /\ "toString" \in DOMAIN v

\* Whether the logging of the handler throws before the insert is reached
LoggingThrows(payload) ==
    \E f \in {"AWBNo", "short_code", "activity", "timestamp"} :
       ToPrimitiveThrows(Get(payload, f))

\* ev: phase "rejected" (401 of the secret check), "accepted" (create called),
\* "threw" (500 of the outer catch), "responded" (the answer after create)
HookEvent(phase, id, secret, status, success, created) ==
    [kind |-> "webhook", phase |-> phase, id |-> id, secret |-> secret,
     status |-> status, success |-> success, created |-> created]

Pending == {h \in HookIds : hooks[h].st = "inserting"}

\* POST /webhooks/pikndel/status up to the await of WebhookResponse.create
WebhookPost(h, req) ==
    LET verdict == verifyWebhookSecret(env.WEBHOOK_SECRET, req.secret)
        payload == IF Truthy(req.body) THEN req.body ELSE [t |-> "object"]
    IN /\ hooks[h] = NoHook
       /\ Len(records) + Cardinality(Pending) < MaxRecords
       /\ IF verdict # "next"
          THEN /\ ev' = HookEvent("rejected", 0, req.secret, 401, FALSE, FALSE)
               /\ UNCHANGED hooks
          ELSE IF LoggingThrows(payload)
          THEN /\ ev' = HookEvent("threw", h, req.secret, 500, FALSE, FALSE)
               /\ UNCHANGED hooks
          ELSE /\ ev' = HookEvent("accepted", h, req.secret, 0, FALSE, FALSE)
               /\ hooks' = [hooks EXCEPT ![h] = [st |-> "inserting",
                                                 payload |-> payload]]
       /\ UNCHANGED <<env, completedLogins, cachedToken, calls, records, unauth>>

\* the handler from the settling of WebhookResponse.create on: dbErr is a
\* failure of the store itself
WebhookCreated(h, dbErr) ==
    LET failed == dbErr \/ CastFails(hooks[h].payload)
    IN /\ hooks[h].st = "inserting"
       /\ hooks' = [hooks EXCEPT ![h] = NoHook]
       /\ records' = IF failed THEN records
                     ELSE InsertDoc(records, WebhookDoc(hooks[h].payload))
       /\ ev' = IF failed /\ InnerCatchRethrows(failed)
                THEN HookEvent("responded", h, Undef, 500, FALSE, FALSE)
                ELSE HookEvent("responded", h, Undef, 200, TRUE, ~failed)
       /\ UNCHANGED <<env, completedLogins, cachedToken, calls, unauth>>

\* ------------------------------------------------------------------ inputs
EmptyObject == [t |-> "object"]

\* provider response bodies: where a login response may carry the token
TokenBody(DataToken, Token, token, access_token) ==
    [t |-> "object",
     Data |-> [t |-> "object", Token |-> DataToken, UserId |-> Num(800),
               Name |-> Str("Acme")],
     Token |-> Token, token |-> token, access_token |-> access_token]

Bodies == {EmptyObject, TokenBody(Str("tA"), Undef, Undef, Undef)}

Statuses == {200, 201, 400, 401, 404, 500}

Transports == {NetFail} \cup {Response(st, b) : st \in Statuses, b \in Bodies}

\* responses of a provider that issues a different token at each login
TokenBodies == {EmptyObject, TokenBody(Str("tA"), Undef, Undef, Undef),
                TokenBody(Str("tB"), Undef, Undef, Undef)}

TokenTransports ==
    {NetFail} \cup {Response(st, b) : st \in {200, 401}, b \in TokenBodies}

\* every combination of the four candidate fields, each absent, empty or set
LoginBodies ==
    {EmptyObject, [t |-> "object", Data |-> Null, Token |-> Str("tT")]} \cup
    {TokenBody(a, b, c, d) : a \in {Undef, Str(""), Str("tDT")},
                             b \in {Undef, Str(""), Str("tT")},
                             c \in {Undef, Str(""), Str("tt")},
                             d \in {Undef, Str(""), Str("tat")}}

LoginTransports ==
    {NetFail} \cup {Response(st, b) : st \in {200, 201, 401}, b \in LoginBodies}

Credentials == {<<Undef, Undef>>, <<Str("user"), Str("pass")>>, <<Str("user"), Undef>>}

TrackingIds == {Undef, Str(""), Str("PKD1")}

SetTokens == {Null, Str("tS")}

\* order payloads
Pickup0 ==
    [t |-> "object", PersonName |-> Str("Sender"), Mobile |-> Str("98765"),
     Address |-> Str("22 MG Road"), Pincode |-> Str("400008")]
Delivery0 ==
    [t |-> "object", PersonName |-> Str("Receiver"), Mobile |-> Str("91234"),
     Address |-> Str("Kalkaji"), Pincode |-> Str("110019")]
Item0 == [t |-> "object", Qty |-> Num(1), Cost |-> Num(50)]

Pickups ==
    {Pickup0 @@ [CashPaid |-> a, CashCollection |-> b] :
        a \in {Undef, Str("10"), Num(10), Num(0)}, b \in {Undef, Str("50"), Num(50)}}
Deliveries ==
    {Delivery0 @@ [CashCollection |-> a] :
        a \in {Undef, Str("50"), Num(50), Str("cod")}}
Items ==
    {Item0 @@ [IsFragile |-> a, IsLiquid |-> b] :
        a \in {Undef, Null, Num(0), Num(1), Str("1"), Bool(TRUE)},
        b \in {Undef, Str("0"), Bool(FALSE)}}

Entry(pk, dl, it) == [t |-> "object", Pickup |-> pk, Delivery |-> dl, Item |-> it]

\* info entries with each part present or not, and complete ones over the
\* values of the cash fields and of the item flags
PartialEntries ==
    {Entry(pk, dl, it) : pk \in {Undef, Pickup0}, dl \in {Undef, Delivery0},
                         it \in {Undef, Arr(<<>>), Arr(<<Item0>>)}}
Entries ==
    {Entry(pk, Delivery0, Arr(<<Item0>>)) : pk \in Pickups}
    \cup {Entry(Pickup0, dl, Arr(<<Item0>>)) : dl \in Deliveries}
    \cup {Entry(Pickup0, Delivery0, Arr(<<it, Item0>>)) : it \in Items}

\* Info as a single entry or as an array
Infos ==
    {Undef, Arr(<<>>)} \cup PartialEntries
    \cup {Arr(<<e>>) : e \in PartialEntries \cup Entries}

Detail(cu, w, info) ==
    [t |-> "object", ClientUniqueNo |-> cu, TotalActualWeight |-> w, Info |-> info]

Detail0 == Detail(Str("ORD-1"), Str("1"), Arr(<<Entry(Pickup0, Delivery0, Arr(<<Item0>>))>>))

Details ==
    {Detail(cu, w, info) : cu \in {Undef, Str("ORD-1")},
                           w \in {Undef, Num(5)}, info \in Infos}

OrderLists ==
    {Undef, Arr(<<>>), Arr(<<Null>>)} \cup {Arr(<<d>>) : d \in Details}
    \cup {Arr(<<Detail0, d>>) : d \in {Null, Detail0, Detail(Str("ORD-2"), Num(5), Undef)}}

Orders ==
    {[t |-> "object", UserId |-> u, OrderDetails |-> ods] :
        u \in {Undef, Num(800)}, ods \in OrderLists}

\* the two payloads the concurrent specification places
FewOrders ==
    {[t |-> "object", UserId |-> Undef, OrderDetails |-> Arr(<<Detail0>>)],
     [t |-> "object", UserId |-> Str("800"), OrderDetails |-> Arr(<<Detail0>>)]}

\* webhook requests
HookBodies ==
    {Undef,
     [t |-> "object", AWBNo |-> Str("PKD1"), short_code |-> Str("PCK"),
      activity |-> Str("picked"), timestamp |-> Num(1700)],
     [t |-> "object", AWBNo |-> Num(5), short_code |-> Str("PCK"),
      timestamp |-> Str("1700")],
     [t |-> "object", AWBNo |-> Str("PKD1"), timestamp |-> Str("soon")],
     [t |-> "object", AWBNo |-> [t |-> "object", toString |-> Num(1)],
      short_code |-> Str("PCK")]}

HookRequests ==
    [secret : {Undef, Str(""), Str("s3cret"), Str("wrong")}, body : HookBodies]

\* ------------------------------------------------------------ specifications
Init ==
    /\ env \in Envs
    /\ cachedToken = Null
    /\ calls = [c \in CallIds |-> Idle]
    /\ hooks = [h \in HookIds |-> NoHook]
    /\ records = <<>>
    /\ unauth = [by |-> "", stale |-> FALSE, sinceLogin |-> FALSE,
                 sinceWrite |-> FALSE, sent |-> FALSE]
    /\ completedLogins = <<>>
    /\ ev = [kind |-> "init"]

\* the service under concurrent calls
InitService == Init /\ env.WEBHOOK_SECRET = Undef
                    /\ Truthy(env.USERNAME) = Truthy(env.PASSWORD)

Next ==
    \/ \E c \in CallIds : \E cr \in Credentials : Login(c, cr[1], cr[2])
    \/ \E c \in CallIds : \E tr \in Transports : LoginReturn(c, tr)
    \/ \E c \in CallIds : \E p \in FewOrders : PlaceOrder(c, p)
    \/ \E c \in CallIds : \E id \in TrackingIds : GetOrderStatus(c, id)
    \/ \E c \in CallIds : \E tr \in Transports : RequestReturn(c, tr)
    \/ \E tok \in SetTokens : SetToken(tok)

Spec == InitService /\ [][Next]_vars

\* concurrent calls without setToken, the provider issuing two tokens
NextTokens ==
    \/ \E c \in CallIds : \E cr \in Credentials : Login(c, cr[1], cr[2])
    \/ \E c \in CallIds : \E tr \in TokenTransports : LoginReturn(c, tr)
    \/ \E c \in CallIds : \E p \in FewOrders : PlaceOrder(c, p)
    \/ \E c \in CallIds : \E id \in TrackingIds : GetOrderStatus(c, id)
    \/ \E c \in CallIds : \E tr \in TokenTransports : RequestReturn(c, tr)

SpecTokens == InitService /\ [][NextTokens]_vars

\* one login at a time, over every shape of the login response
NextLogin ==
    \/ \E cr \in Credentials : Login(1, cr[1], cr[2])
    \/ \E tr \in LoginTransports : LoginReturn(1, tr)

SpecLogin == InitService /\ [][NextLogin]_vars

\* one placeOrder at a time, over every order payload
NextOrder ==
    \/ \E p \in Orders : PlaceOrder(1, p)
    \/ \E tr \in Transports : RequestReturn(1, tr)

SpecOrder == InitService /\ [][NextOrder]_vars

\* the webhook receiver
InitWebhook == Init /\ env.USERNAME = Undef /\ env.PASSWORD = Undef

NextWebhook ==
    \/ \E h \in HookIds : \E req \in HookRequests : WebhookPost(h, req)
    \/ \E h \in HookIds : \E dbErr \in BOOLEAN : WebhookCreated(h, dbErr)

SpecWebhook == InitWebhook /\ [][NextWebhook]_vars

\* ------------------------------------------------------------------ claims
\* C1 (as stated): a 401 received by a placeOrder or getOrderStatus call
\* empties the cache and fails the call with Unauthorized, and the next call
\* sent before any new successful login carries no Authorization header.
C1_NextCallBeforeLoginHasNoHeader ==
    [][/\ (/\ ev'.kind = "result" /\ ev'.op \in {"placeOrder", "getOrderStatus"}
           /\ ev'.resp.t = "response" /\ ev'.resp.status = 401)
          => (cachedToken' = Null /\ ev'.out.kind = "Unauthorized")
       /\ (/\ ev'.kind = "send" /\ unauth.by \in {"placeOrder", "getOrderStatus"}
           /\ unauth.sinceLogin /\ ~unauth.sent)
          => ev'.hdr = Undef]_vars

\* C1 (amended): a 401 received by a placeOrder or getOrderStatus call empties
\* the cache and fails the call with Unauthorized, and every call sent before
\* the cache is written again, by a successful login or by setToken, carries
\* no Authorization header.
C1_CallBeforeCacheWriteHasNoHeader ==
    [][/\ (/\ ev'.kind = "result" /\ ev'.op \in {"placeOrder", "getOrderStatus"}
           /\ ev'.resp.t = "response" /\ ev'.resp.status = 401)
          => (/\ cachedToken' = Null
              /\ ev'.out.kind = "Unauthorized" /\ ev'.out.statusCode = 401)
       /\ (ev'.kind = "send" /\ unauth.by \in {"placeOrder", "getOrderStatus"} /\ unauth.sinceWrite)
          => ev'.hdr = Undef]_vars

\* a call with auth was sent without header after a 401 had cleared a token
C1_Witness ==
    /\ ev.kind = "send" /\ ev.op \in {"placeOrder", "getOrderStatus"}
    /\ unauth.by \in {"placeOrder", "getOrderStatus"} /\ unauth.stale /\ unauth.sinceWrite
    /\ ev.hdr = Undef

\* C2: a login answered 200 with a token T caches T; a call sent with auth
\* while a token is cached carries "Bearer <that token>"; login's own call
\* and a call sent while nothing is cached carry no Authorization header.
C2_BearerHeaderFollowsCache ==
    /\ (ev.kind = "result" /\ ev.op = "login" /\ ev.resp.t = "response"
        /\ ev.resp.status = 200)
       => LET body == ev.resp.data
              cands == {Get(Get(body, "Data"), "Token"), Get(body, "Token"),
                        Get(body, "token"), Get(body, "access_token")}
          IN (\E v \in cands : Truthy(v))
             => (/\ ev.out.kind = "ok"
                 /\ Truthy(cachedToken) /\ cachedToken \in cands
                 /\ ev.out.data.token = cachedToken)
    /\ ev.kind = "send"
       => IF ev.op # "login" /\ cachedToken # Null /\ cachedToken # Str("")
          THEN ev.hdr = Str("Bearer " \o cachedToken.s)
          ELSE ev.hdr = Undef

\* a call with auth carrying the token a login cached
C2_Witness ==
    /\ ev.kind = "send" /\ ev.op = "placeOrder"
    /\ cachedToken = Str("tA") /\ ev.hdr = Str("Bearer tA")

\* C3: a payload lacking one of UserId, non-empty OrderDetails, the first
\* detail's ClientUniqueNo, its TotalActualWeight, its Info (first element
\* of an array), Info.Pickup, Info.Delivery, non-empty Info.Item makes
\* placeOrder fail with a ValidationError naming the first of them that is
\* missing, and nothing is sent.
C3_FirstMissingFieldIsNamed ==
    (ev.kind \in {"send", "result"} /\ ev.op = "placeOrder" /\ ev.arg # Undef)
    => LET p == ev.arg
           ods == Get(p, "OrderDetails")
           od == IF IsArray(ods) /\ Len(ods.items) > 0 THEN ods.items[1] ELSE Undef
           info == IF IsArray(Get(od, "Info"))
                   THEN (IF Len(Get(od, "Info").items) > 0
                         THEN Get(od, "Info").items[1] ELSE Undef)
                   ELSE Get(od, "Info")
           lacks == <<~Truthy(Get(p, "UserId")),
                      ~IsArray(ods) \/ Len(ods.items) = 0,
                      ~Truthy(Get(od, "ClientUniqueNo")),
                      ~Truthy(Get(od, "TotalActualWeight")),
                      ~Truthy(info),
                      ~Truthy(Get(info, "Pickup")),
                      ~Truthy(Get(info, "Delivery")),
                      ~IsArray(Get(info, "Item")) \/ Len(Get(info, "Item").items) = 0>>
           names == <<"UserId", "OrderDetails", "ClientUniqueNo", "TotalActualWeight",
                      "Info", "Pickup", "Delivery", "Item">>
       IN (\E i \in 1..8 : lacks[i])
          => LET first == CHOOSE i \in 1..8 : lacks[i] /\ \A j \in 1..(i - 1) : ~lacks[j]
             IN /\ ev.kind = "result" /\ ev.sends = 0
                /\ ev.out.kind = "ValidationError"
                /\ ev.out.field = names[first]

\* C4: in every body placeOrder submits, Delivery.CashCollection is a number
\* and Pickup.CashCollection and Pickup.CashPaid are strings.
C4_CashFieldTypes ==
    (ev.kind = "send" /\ ev.op = "placeOrder")
    => \A i \in 1..Len(ev.body.Data.OrderDetails.items) :
          LET info == ev.body.Data.OrderDetails.items[i].Info.items[1]
          IN /\ info.Delivery.CashCollection.t = "number"
             /\ info.Pickup.CashCollection.t = "string"
             /\ info.Pickup.CashPaid.t = "string"

\* C5: with a webhook secret configured, a webhook POST whose
\* x-pikndel-secret header is missing or differs from it is answered 401,
\* starts no insert and leaves the persisted records unchanged.
C5_BadSecretRejected ==
    [][(/\ ev'.kind = "webhook" /\ ev'.phase \in {"rejected", "accepted", "threw"}
        /\ env.WEBHOOK_SECRET # Undef /\ env.WEBHOOK_SECRET # Str("")
        /\ (ev'.secret \in {Undef, Str("")} \/ ev'.secret # env.WEBHOOK_SECRET))
       => (/\ ev'.phase = "rejected" /\ ev'.status = 401 /\ ~ev'.success
           /\ records' = records /\ hooks' = hooks)]_vars

\* a request with a wrong secret was rejected while a record was persisted
C5_Witness ==
    /\ ev.kind = "webhook" /\ ev.phase = "rejected" /\ ev.secret = Str("wrong")
    /\ env.WEBHOOK_SECRET = Str("s3cret") /\ Len(records) > 0

\* C6 (as stated): a webhook request is rejected only for a missing or wrong
\* secret while one is configured, and every request let through is answered
\* 200 with success true, whether its insert succeeded or failed.
C6_AcceptedAlwaysAcknowledged ==
    /\ (ev.kind = "webhook" /\ ev.phase = "rejected")
       => (/\ Truthy(env.WEBHOOK_SECRET)
           /\ (~Truthy(ev.secret) \/ ev.secret # env.WEBHOOK_SECRET))
    /\ (ev.kind = "webhook" /\ ev.phase \in {"responded", "threw"})
       => (ev.status = 200 /\ ev.success)

\* C6 (amended): a webhook request is rejected only for a missing or wrong
\* secret while one is configured, and every request let through whose
\* handling reaches the insert is answered 200 with success true, whether the
\* insert succeeded or failed.
C6_InsertFailureStillAcknowledged ==
    /\ (ev.kind = "webhook" /\ ev.phase = "rejected")
       => (/\ Truthy(env.WEBHOOK_SECRET)
           /\ (~Truthy(ev.secret) \/ ev.secret # env.WEBHOOK_SECRET))
    /\ (ev.kind = "webhook" /\ ev.phase = "responded")
       => (ev.status = 200 /\ ev.success)

\* a request whose insert failed was answered
C6_Witness ==
    ev.kind = "webhook" /\ ev.phase = "responded" /\ ~ev.created /\ ev.status = 200

\* C7: the records change only by a successful insert of an accepted push,
\* which appends one record with the body's AWBNo, short_code, activity and
\* timestamp (as the schema casts them) and the whole body as rawPayload, and
\* changes no record already there: identical pushes leave identical records.
C7_InsertOnly ==
    [][/\ records' # records
          => (ev'.kind = "webhook" /\ ev'.phase = "responded" /\ ev'.created)
       /\ (ev'.kind = "webhook" /\ ev'.phase = "responded" /\ ev'.created)
          => LET body == hooks[ev'.id].payload
             IN /\ Len(records') = Len(records) + 1
                /\ SubSeq(records', 1, Len(records)) = records
                /\ records'[Len(records')] =
                      [AWBNo |-> CastString(Get(body, "AWBNo")),
                       short_code |-> CastString(Get(body, "short_code")),
                       activity |-> CastString(Get(body, "activity")),
                       timestamp |-> CastNumber(Get(body, "timestamp")),
                       rawPayload |-> body]]_vars

\* two identical pushes left two records
C7_Witness ==
    /\ Len(records) >= 2 /\ records[1] = records[2]
    /\ ev.kind = "webhook" /\ ev.phase = "responded" /\ ev.created

\* C8: the status of a received response fixes the outcome: 200 returns the
\* body, 400 BadRequest, 401 Unauthorized, 500 ProviderServerError, any other
\* status UnexpectedStatus with that status and the body; NetworkError only
\* when no response was received.
C8_StatusFixesOutcome ==
    (ev.kind = "result" /\ ev.sends > 0)
    => /\ ev.out.kind = "NetworkError" => ev.resp.t = "none"
       /\ ev.resp.t = "response"
          => CASE ev.resp.status = 200 ->
                    \/ ev.op = "login"
                    \/ (ev.out.kind = "ok" /\ ev.out.data = ev.resp.data)
               [] ev.resp.status = 400 -> ev.out.kind = "BadRequest"
               [] ev.resp.status = 401 -> ev.out.kind = "Unauthorized"
               [] ev.resp.status = 500 -> ev.out.kind = "ProviderServerError"
               [] OTHER -> /\ ev.out.kind = "UnexpectedStatus"
                           /\ ev.out.statusCode = ev.resp.status
                           /\ ev.out.data = ev.resp.data

\* C9: getOrderStatus with an empty tracking id fails with ValidationError
\* and sends nothing; with a non-empty id T it sends one call, whose Data is
\* {AWBNo: T}, never a second one, and returns the body of a 200 response or
\* fails.
C9_OneStatusCall ==
    /\ \A c \in CallIds : calls[c].sends <= 1
    /\ (ev.kind \in {"send", "result"} /\ ev.op = "getOrderStatus")
       => /\ (ev.arg \in {Undef, Str("")} /\ ev.kind = "result" /\ ev.sends = 0)
             => (ev.out.kind = "ValidationError" /\ ev.resp = NetFail)
          /\ ev.kind = "send"
             => (/\ ev.arg \notin {Undef, Null, Str("")}
                 /\ ev.body.Data = [t |-> "object", AWBNo |-> ev.arg])
          /\ (ev.kind = "result" /\ ev.sends > 0)
             => /\ ev.sends = 1
                /\ IF ev.resp.t = "response" /\ ev.resp.status = 200
                   THEN ev.out.kind = "ok" /\ ev.out.data = ev.resp.data
                   ELSE ev.out.kind # "ok"

\* a status call was sent once and returned the provider's body
C9_Witness ==
    /\ ev.kind = "result" /\ ev.op = "getOrderStatus" /\ ev.sends = 1
    /\ ev.out.kind = "ok" /\ ev.out.data # EmptyObject

\* C10: on a 200 login response the token is the first populated of Data.Token,
\* Token, token, access_token, in that order; when none is populated login
\* fails with TokenMissing and the cache keeps what it held.
C10_TokenLookupOrder ==
    [][(/\ ev'.kind = "result" /\ ev'.op = "login"
        /\ ev'.resp.t = "response" /\ ev'.resp.status = 200)
       => LET body == ev'.resp.data
              nested == IF Get(body, "Data").t = "object"
                        THEN Get(Get(body, "Data"), "Token") ELSE Undef
              cands == <<nested, Get(body, "Token"), Get(body, "token"),
                         Get(body, "access_token")>>
          IN IF \E i \in 1..4 : Truthy(cands[i])
             THEN LET first == CHOOSE i \in 1..4 :
                                 Truthy(cands[i]) /\ \A j \in 1..(i - 1) : ~Truthy(cands[j])
                  IN /\ ev'.out.kind = "ok"
                     /\ ev'.out.data.token = cands[first]
                     /\ cachedToken' = cands[first]
             ELSE /\ ev'.out.kind = "TokenMissing"
                  /\ cachedToken' = cachedToken]_vars

\* a login fell back past an empty Data.Token to the top-level Token
C10_Witness ==
    /\ ev.kind = "result" /\ ev.op = "login" /\ ev.out.kind = "ok"
    /\ Get(Get(ev.resp.data, "Data"), "Token") = Str("")
    /\ Get(ev.resp.data, "Token") = Str("tT")
    /\ Get(ev.resp.data, "token") = Str("tt")
    /\ cachedToken = Str("tT")

\* C11: an operation that fails with ValidationError, MissingCredentials,
\* TokenMissing, NetworkError, BadRequest, ProviderServerError or
\* UnexpectedStatus leaves the cached token as it was: neither the step that
\* sends its call nor the step that reports the failure changes the cache.
C11_OtherFailuresKeepToken ==
    [][/\ ev'.kind = "send" => cachedToken' = cachedToken
       /\ (/\ ev'.kind = "result"
           /\ ev'.out.kind \in {"ValidationError", "MissingCredentials",
                                "TokenMissing", "NetworkError", "BadRequest",
                                "ProviderServerError", "UnexpectedStatus"})
          => cachedToken' = cachedToken]_vars

\* a call answered 500 failed while a token was cached
C11_Witness ==
    /\ ev.kind = "result" /\ ev.out.kind = "ProviderServerError"
    /\ ev.resp.status = 500 /\ cachedToken = Str("tA")

\* C12: in every body placeOrder submits, the IsFragile and IsLiquid of every
\* item are each the string "0" or the string "1", whatever the input flag was
\* (absent, number, string or boolean).
C12_ItemFlagsAreZeroOrOne ==
    (ev.kind = "send" /\ ev.op = "placeOrder")
    => \A i \in 1..Len(ev.body.Data.OrderDetails.items) :
          LET item == ev.body.Data.OrderDetails.items[i].Info.items[1].Item.items
          IN \A j \in 1..Len(item) :
                /\ item[j].IsFragile \in {Str("0"), Str("1")}
                /\ item[j].IsLiquid \in {Str("0"), Str("1")}

\* C13: under every interleaving of concurrent login, placeOrder and
\* getOrderStatus calls, setToken not used, the cached token is either empty
\* or the token returned by the most recently completed successful login.
C13_CacheIsEmptyOrLatestLogin ==
    \/ cachedToken = Null
    \/ /\ completedLogins # <<>>
       /\ cachedToken = completedLogins[Len(completedLogins)]

\* a login returned tB after an older login had returned tA, while another
\* call is still awaiting its response
C13_Witness ==
    /\ ev.kind = "result" /\ ev.op = "login" /\ ev.out.kind = "ok"
    /\ completedLogins = <<Str("tA"), Str("tB")>>
    /\ cachedToken = Str("tB")
    /\ \E c \in CallIds : calls[c].op \in {"placeOrder", "getOrderStatus"}

=============================================================================
